---------------------------- MODULE Spec2Model ----------------------------
(***************************************************************************)
(* Model of the template-driven deck builder (src/ppt_builder.py) and of   *)
(* the plan normalisation of src/llm_providers.py.                         *)
(*                                                                         *)
(* Text that the code searches or slices (layout names, name patterns,     *)
(* titles) is a sequence of one-character strings, so that lower(), the    *)
(* substring test `in` and the slice [:n] are computed, not assumed.       *)
(* Python indices are 0-based and are kept 0-based here; a sequence s is   *)
(* read at s[i + 1].                                                        *)
(***************************************************************************)
EXTENDS Integers, Sequences, FiniteSets, TLC

VARIABLES
  pc,              \* position of the call being modelled
  template_bytes,  \* the uploaded template, as a document
  prs,             \* the Presentation: [layouts, slides, rels, master], once loaded
  raw_slides,      \* data["slides"] as the provider returned it
  slides_plan,     \* the plan handed to build_presentation
  normalized,      \* TRUE once plan_slides_via_llm has normalised the plan
  raising,         \* the calls that raise in this run: [calls, first_only, cut]
  template_images, \* build_presentation's shuffled pool of harvested images
  idx,             \* loop index of build_presentation (entries done so far)
  layout_idx,      \* last value returned by _find_layout_index
  placements,      \* history: image placements attempted, <<idx, pool index>>
  purges,          \* history: number of runs of _purge_all_existing_slides
  harvest_log,     \* history: the slide list the harvest read, once it ran
  suppressed,      \* history: <<idx, call>> of each exception an except clause swallowed
  error,           \* cause of a propagated exception, or NoError
  out,             \* value returned by build_presentation, or NoOutput
  rng,             \* the random module's generator, shared by the process: the
                   \* draws made from it so far, each as the call that made it
  shuffle_i        \* loop variable of a random.shuffle in progress

vars == <<pc, template_bytes, prs, raw_slides, slides_plan, normalized, raising,
          template_images, idx, layout_idx, placements, purges, harvest_log, suppressed, error, out,
          rng, shuffle_i>>

Min(a, b) == IF a <= b THEN a ELSE b

(***************************************************************************)
(* Text                                                                    *)
(***************************************************************************)
UpperAlpha == <<"A","B","C","D","E","F","G","H","I","J","K","L","M",
                "N","O","P","Q","R","S","T","U","V","W","X","Y","Z">>
LowerAlpha == <<"a","b","c","d","e","f","g","h","i","j","k","l","m",
                "n","o","p","q","r","s","t","u","v","w","x","y","z">>

\* the lower-case letter of each upper-case letter
UpperToLower ==
  [c \in { UpperAlpha[i] : i \in DOMAIN UpperAlpha } |->
     LowerAlpha[CHOOSE i \in DOMAIN UpperAlpha : UpperAlpha[i] = c]]

\* str.lower() on one character
lower_char(c) == IF c \in DOMAIN UpperToLower THEN UpperToLower[c] ELSE c

\* str.lower()
lower(s) == IF s = <<>> THEN <<>> ELSE [i \in 1..Len(s) |-> lower_char(s[i])]

\* the substring test `needle in hay`
Contains(needle, hay) ==
  \E i \in 0..(Len(hay) - Len(needle)) :
     SubSeq(hay, i + 1, i + Len(needle)) = needle

\* the slice s[:n]
Slice(s, n) == SubSeq(s, 1, Min(Len(s), n))

S_TitleAndContent == <<"T", "i", "t", "l", "e", " ", "a", "n", "d", " ", "C", "o", "n", "t", "e", "n", "t">>
S_ContentWithCaption == <<"C", "o", "n", "t", "e", "n", "t", " ", "w", "i", "t", "h", " ", "C", "a", "p", "t", "i", "o", "n">>
S_TitleAndContentParen2 == <<"T", "i", "t", "l", "e", " ", "a", "n", "d", " ", "C", "o", "n", "t", "e", "n", "t", " ", "(", "2", ")">>
S_TitleAndContent2 == <<"T", "i", "t", "l", "e", " ", "a", "n", "d", " ", "C", "o", "n", "t", "e", "n", "t", " ", "2">>
S_TitleOnly == <<"T", "i", "t", "l", "e", " ", "O", "n", "l", "y">>
S_BlankTitle == <<"B", "l", "a", "n", "k", " ", "T", "i", "t", "l", "e">>
S_Title == <<"T", "i", "t", "l", "e">>
S_SectionHeader == <<"S", "e", "c", "t", "i", "o", "n", " ", "H", "e", "a", "d", "e", "r">>
S_SectionTitle == <<"S", "e", "c", "t", "i", "o", "n", " ", "T", "i", "t", "l", "e">>
S_TitleSlide == <<"T", "i", "t", "l", "e", " ", "S", "l", "i", "d", "e">>
S_TwoContent == <<"T", "w", "o", " ", "C", "o", "n", "t", "e", "n", "t">>
S_TwoContentAndTitle == <<"T", "w", "o", " ", "C", "o", "n", "t", "e", "n", "t", " ", "a", "n", "d", " ", "T", "i", "t", "l", "e">>
S_Comparison == <<"C", "o", "m", "p", "a", "r", "i", "s", "o", "n">>
S_Quote == <<"Q", "u", "o", "t", "e">>
S_title == <<"t", "i", "t", "l", "e">>

\* Layout names of the templates the model is run on
N_TITLE_ONLY == <<"T", "I", "T", "L", "E", " ", "O", "N", "L", "Y">>
N_Blank == <<"B", "l", "a", "n", "k">>
N_Unnamed == <<>>
N_PictureWithCaption == <<"P", "i", "c", "t", "u", "r", "e", " ", "w", "i", "t", "h", " ", "C", "a", "p", "t", "i", "o", "n">>

(***************************************************************************)
(* Python values                                                           *)
(***************************************************************************)
\* None, where a string is expected (a JSON null)
PyNone == "<None>"

\* dict.get(k, dflt)
Get(d, k, dflt) == IF k \in DOMAIN d THEN d[k] ELSE dflt

\* truthiness of a value that is None or a str
Truthy(v) == v # PyNone /\ v # ""

(***************************************************************************)
(* Layout resolution                                                       *)
(***************************************************************************)
LAYOUT_PREFS ==
  << <<"title_and_content", <<S_TitleAndContent, S_ContentWithCaption,
                              S_TitleAndContentParen2, S_TitleAndContent2>> >>,
     <<"title_only",        <<S_TitleOnly, S_BlankTitle, S_Title>> >>,
     <<"section_header",    <<S_SectionHeader, S_SectionTitle, S_TitleSlide>> >>,
     <<"two_content",       <<S_TwoContent, S_TwoContentAndTitle, S_Comparison>> >>,
     <<"quote",             <<S_Quote, S_TitleOnly>> >>,
     <<"comparison",        <<S_Comparison, S_TwoContent>> >>,
     <<"timeline",          <<S_TitleAndContent, S_TwoContent>> >>,
     <<"process",           <<S_TitleAndContent, S_TwoContent>> >>,
     <<"overview",          <<S_TitleAndContent, S_TitleOnly>> >>,
     <<"summary",           <<S_TitleAndContent, S_TitleOnly>> >> >>

\* the list used when LAYOUT_PREFS has no entry for the hint
DEFAULT_PREFS == <<S_TitleAndContent, S_TitleOnly>>

TITLE_TYPES   == {"TITLE", "CENTER_TITLE", "SUBTITLE"}
CONTENT_TYPES == {"BODY", "OBJECT"}
PICTURE_TYPES == {"PICTURE", "SLIDE_IMAGE"}

NotFound == 0 - 1

\* one placeholder passes the test of _layout_has_body's loop body
BodyLike(ph) ==
  \/ ph.type \in CONTENT_TYPES
  \/ ph.type \notin TITLE_TYPES /\ ph.tf

RECURSIVE HasBodyFrom(_, _)
HasBodyFrom(phs, k) ==
  IF k > Len(phs) THEN FALSE
  ELSE IF BodyLike(phs[k]) THEN TRUE
  ELSE HasBodyFrom(phs, k + 1)

_layout_has_body(layout) == HasBodyFrom(layout.placeholders, 1)

\* prefs = next((p[1] for p in LAYOUT_PREFS if p[0] == layout_hint), None) or [...]
RECURSIVE PrefsFrom(_, _)
PrefsFrom(layout_hint, k) ==
  IF k > Len(LAYOUT_PREFS) THEN DEFAULT_PREFS
  ELSE IF LAYOUT_PREFS[k][1] = layout_hint THEN LAYOUT_PREFS[k][2]
  ELSE PrefsFrom(layout_hint, k + 1)

Prefs(layout_hint) == PrefsFrom(layout_hint, 1)

\* name.lower() in lname.lower()
NameMatches(name, layout) == Contains(lower(name), lower(layout.name))

\* inner loop of the preferred-name search: first layout whose name has `name`
RECURSIVE ScanName(_, _, _)
ScanName(layouts, name, i) ==
  IF i >= Len(layouts) THEN NotFound
  ELSE IF NameMatches(name, layouts[i + 1]) THEN i
  ELSE ScanName(layouts, name, i + 1)

\* a search that walks the layouts first and the patterns second: the first
\* layout that any of the patterns from k on matches
ScanPrefsLayoutMajor(layouts, prefs, k) ==
  LET hits == { i \in 0..(Len(layouts) - 1) :
                  \E j \in k..Len(prefs) : NameMatches(prefs[j], layouts[i + 1]) }
  IN  IF hits = {} THEN NotFound
      ELSE CHOOSE i \in hits : \A h \in hits : i <= h

\* outer loop: the patterns in preference order
RECURSIVE ScanPrefs(_, _, _)
ScanPrefs(layouts, prefs, k) ==
  IF k > Len(prefs) THEN NotFound
  ELSE LET r == ScanName(layouts, prefs[k], 0)
       IN  IF r # NotFound THEN r ELSE ScanPrefs(layouts, prefs, k + 1)

\* a body search that counts layouts from one
RECURSIVE ScanBodyOneBased(_, _)
ScanBodyOneBased(layouts, i) ==
  IF i >= Len(layouts) THEN NotFound
  ELSE IF _layout_has_body(layouts[i + 1]) THEN i + 1
  ELSE ScanBodyOneBased(layouts, i + 1)

\* second loop: first layout with a body
RECURSIVE ScanBody(_, _)
ScanBody(layouts, i) ==
  IF i >= Len(layouts) THEN NotFound
  ELSE IF _layout_has_body(layouts[i + 1]) THEN i
  ELSE ScanBody(layouts, i + 1)

\* third loop: first layout named "...title..."
ScanTitle(layouts) == ScanName(layouts, S_title, 0)

\* what the function returns when all three loops fall through
LastResort == 0

\* a resolution that tries the name "title" before the body placeholders
FindLayoutTitleFirst(layouts, layout_hint) ==
  LET byName  == ScanPrefs(layouts, Prefs(layout_hint), 1)
      byBody  == ScanBody(layouts, 0)
      byTitle == ScanTitle(layouts)
  IN  IF byName # NotFound THEN byName
      ELSE IF byTitle # NotFound THEN byTitle
      ELSE IF byBody # NotFound THEN byBody
      ELSE LastResort

_find_layout_index(layouts, layout_hint) ==
  LET byName  == ScanPrefs(layouts, Prefs(layout_hint), 1)
      byBody  == ScanBody(layouts, 0)
      byTitle == ScanTitle(layouts)
  IN  IF byName # NotFound THEN byName
      ELSE IF byBody # NotFound THEN byBody
      ELSE IF byTitle # NotFound THEN byTitle
      ELSE LastResort

\* a lookup without the default
HintOfNoDefault(slide_data) == Get(slide_data, "layout_hint", "")

\* hint = slide_data.get("layout_hint", "title_and_content")
HintOf(slide_data) == Get(slide_data, "layout_hint", "title_and_content")

(***************************************************************************)
(* Plan normalisation (plan_slides_via_llm, after the provider replied)    *)
(***************************************************************************)
PlanCap == 30

\* for s in slides: if "notes" not in s: s["notes"] = ""
WithNotes(s) ==
  IF "notes" \in DOMAIN s THEN s
  ELSE [k \in DOMAIN s \cup {"notes"} |-> IF k = "notes" THEN "" ELSE s[k]]

\* for s in slides: if not s.get("layout_hint"): s["layout_hint"] = "title_and_content"
WithHint(s) ==
  IF Truthy(Get(s, "layout_hint", PyNone)) THEN s
  ELSE [k \in DOMAIN s \cup {"layout_hint"} |->
          IF k = "layout_hint" THEN "title_and_content" ELSE s[k]]

Normalize(slides, include_notes) ==
  LET cut == Slice(slides, PlanCap)
  IN  IF cut = <<>> THEN <<>>
      ELSE [i \in 1..Len(cut) |->
              WithHint(IF include_notes THEN WithNotes(cut[i]) ELSE cut[i])]

(***************************************************************************)
(* Inputs of the layout-resolution runs                                    *)
(***************************************************************************)
MaxLayouts == 2

Ph(type, tf) == [type |-> type, tf |-> tf]
Layout(name, phs) == [name |-> name, placeholders |-> phs]

\* Layouts as templates in the wild have them.  A layout's own placeholders
\* include the footer; a placeholder that is a picture or a graphic frame on
\* the layout has no text frame.
LayoutPool ==
  { Layout(S_TitleSlide,        <<Ph("CENTER_TITLE", TRUE), Ph("SUBTITLE", TRUE)>>),
    Layout(S_TitleAndContent,   <<Ph("TITLE", TRUE), Ph("OBJECT", TRUE)>>),
    Layout(N_TITLE_ONLY,        <<Ph("TITLE", TRUE)>>),
    Layout(N_Blank,             <<>>),
    Layout(S_ContentWithCaption,<<Ph("TITLE", TRUE), Ph("BODY", TRUE)>>),
    Layout(S_TwoContent,        <<Ph("TITLE", TRUE), Ph("OBJECT", TRUE), Ph("OBJECT", TRUE)>>),
    Layout(N_Unnamed,           <<Ph("FOOTER", TRUE)>>),
    Layout(N_PictureWithCaption,<<Ph("PICTURE", FALSE)>>) }

SeqsUpTo(S, n) == UNION { [1..k -> S] : k \in 0..n }

LayoutTemplates == SeqsUpTo(LayoutPool, MaxLayouts)

KnownHints == { LAYOUT_PREFS[k][1] : k \in DOMAIN LAYOUT_PREFS }

\* one plan entry per way of giving (or not giving) a hint
HintEntries ==
  { [title |-> <<"t">>, bullets |-> <<>>, notes |-> ""] }
  \cup { [title |-> <<"t">>, bullets |-> <<>>, notes |-> "", layout_hint |-> h] :
           h \in KnownHints \cup {"", PyNone, "agenda"} }

NoError  == "none"
NoOutput == <<>>

\* The presentation part holds one relationship per slide of its slide list
\* (rels); its layouts hang off the master, which carries the theme.
Document(layouts, slides) ==
  [layouts |-> layouts, slides |-> slides, master |-> "master+theme",
   rels |-> { slides[k].rId : k \in DOMAIN slides }]

\* prs.slide_layouts[layout_idx] does not raise IndexError
CanIndex(layouts, i) == 0 <= i /\ i < Len(layouts)

(***************************************************************************)
(* Slides and what is written to them                                      *)
(*                                                                         *)
(* A slide is [origin, rId, layout, placeholders, shapes, writes]: shapes  *)
(* are the shapes a template slide came with, writes the sequence of       *)
(* changes build_presentation made to the slide, each [op, via, data].     *)
(***************************************************************************)
TitleCap  == 200
BulletCap == 12
ImageEvery == 3
SparseBullets == 2

\* None, where the position of a placeholder is expected
NoShape == 0

\* prs.slides.add_slide(layout) clones the layout's placeholders, except the
\* date, footer and slide-number ones, as fresh shapes that have a text frame
LatentTypes == {"DATE", "FOOTER", "SLIDE_NUMBER"}

RECURSIVE ClonePlaceholders(_)
ClonePlaceholders(phs) ==
  IF phs = <<>> THEN <<>>
  ELSE IF Head(phs).type \in LatentTypes THEN ClonePlaceholders(Tail(phs))
  ELSE <<Ph(Head(phs).type, TRUE)>> \o ClonePlaceholders(Tail(phs))

NextRId(doc) ==
  IF doc.rels = {} THEN 1
  ELSE 1 + (CHOOSE m \in doc.rels : \A n \in doc.rels : n <= m)

NewSlide(doc, i, entry) ==
  [origin |-> "plan", entry |-> entry, rId |-> NextRId(doc), layout |-> i,
   placeholders |-> ClonePlaceholders(doc.layouts[i + 1].placeholders),
   shapes |-> <<>>, writes |-> <<>>]

add_slide(doc, i, entry) ==
  [doc EXCEPT !.slides = Append(@, NewSlide(doc, i, entry)),
              !.rels = @ \cup {NextRId(doc)}]

\* position (from 1) of the first placeholder whose type is allowed, or None
RECURSIVE FirstPhFrom(_, _, _)
FirstPhFrom(phs, allowed_types, k) ==
  IF k > Len(phs) THEN NoShape
  ELSE IF phs[k].type \in allowed_types THEN k
  ELSE FirstPhFrom(phs, allowed_types, k + 1)

_first_placeholder(slide, allowed_types) ==
  FirstPhFrom(slide.placeholders, allowed_types, 1)

RECURSIVE FirstTextFrom(_, _)
FirstTextFrom(phs, k) ==
  IF k > Len(phs) THEN NoShape
  ELSE IF phs[k].type \notin TITLE_TYPES /\ phs[k].tf THEN k
  ELSE FirstTextFrom(phs, k + 1)

_first_text_capable_non_title(slide) == FirstTextFrom(slide.placeholders, 1)

\* slide.shapes.title: the title placeholder of the slide, or None
ShapesTitle(slide) == _first_placeholder(slide, {"TITLE", "CENTER_TITLE"})

\* the test that sends build_presentation looking for a layout with a body
LacksBody(slide) ==
  /\ _first_placeholder(slide, CONTENT_TYPES) = NoShape
  /\ _first_text_capable_non_title(slide) = NoShape

Write(op, via, data) == [op |-> op, via |-> via, data |-> data]

\* The result of one step on the slide being filled: the slide, the calls
\* whose exception an except clause swallowed, and the exception that
\* escaped (NoError if none).
Step(slide, swallowed, raised) ==
  [slide |-> slide, swallowed |-> swallowed, raised |-> raised]

Wrote(slide, w) == [slide EXCEPT !.writes = Append(@, w)]

\* a title that is not cut
TitleTextUncut(slide_data) == Get(slide_data, "title", <<>>)

\* title_text = (slide_data.get("title") or "")[:200]
TitleText(slide_data) == Slice(Get(slide_data, "title", <<>>), TitleCap)

\* bullets = (slide_data.get("bullets") or [])[:12]
BulletsOf(slide_data) == Slice(Get(slide_data, "bullets", <<>>), BulletCap)

\* a _set_text without its except clause
SetTextUnguarded(slide, via, has_tf, text, F) ==
  IF ~has_tf THEN Step(slide, <<>>, NoError)
  ELSE IF "set_text" \in F THEN Step(slide, <<>>, "set_text")
  ELSE Step(Wrote(slide, Write("title", via, text)), <<>>, NoError)

\* _set_text on a shape that has (has_tf) or lacks a text frame.  F is the
\* set of calls that raise in this run of the loop body.
_set_text(slide, via, has_tf, text, F) ==
  IF ~has_tf THEN Step(slide, <<>>, NoError)
  ELSE IF "set_text" \in F THEN Step(slide, <<"set_text">>, NoError)
  ELSE Step(Wrote(slide, Write("title", via, text)), <<>>, NoError)

\* _set_bullets; when it raises, the `cut` paragraphs written so far stay
_set_bullets(slide, via, has_tf, bullets, F, cut) ==
  IF ~has_tf THEN Step(slide, <<>>, NoError)
  ELSE IF "set_bullets" \in F
       THEN Step(Wrote(slide, Write("bullets", via, Slice(Slice(bullets, BulletCap), cut))),
                 <<"set_bullets">>, NoError)
  ELSE Step(Wrote(slide, Write("bullets", via, Slice(bullets, BulletCap))), <<>>, NoError)

\* the title branch of the loop body
WriteTitle(slide, title_text, F) ==
  LET shape_title == ShapesTitle(slide)
      title_ph == IF shape_title # NoShape THEN shape_title
                  ELSE _first_placeholder(slide, TITLE_TYPES)
  IN  IF title_ph # NoShape
      THEN _set_text(slide, "placeholder", slide.placeholders[title_ph].tf, title_text, F)
      ELSE IF "add_textbox_title" \in F THEN Step(slide, <<"add_textbox_title">>, NoError)
      ELSE _set_text(Wrote(slide, Write("add_textbox", "title", <<>>)),
                     "textbox", TRUE, title_text, F)

\* the body branch of the loop body
WriteBody(slide, bullets, F, cut) ==
  LET content == _first_placeholder(slide, CONTENT_TYPES)
      body_ph == IF content # NoShape THEN content
                 ELSE _first_text_capable_non_title(slide)
  IN  IF body_ph # NoShape
      THEN _set_bullets(slide, "placeholder", slide.placeholders[body_ph].tf, bullets, F, cut)
      ELSE IF "add_textbox_body" \in F THEN Step(slide, <<"add_textbox_body">>, NoError)
      ELSE _set_bullets(Wrote(slide, Write("add_textbox", "body", <<>>)),
                        "textbox", TRUE, bullets, F, cut)

\* _ensure_notes(slide, slide_data.get("notes", ""))
_ensure_notes(slide, text, F) ==
  IF ~Truthy(text) THEN Step(slide, <<>>, NoError)
  ELSE IF "notes" \in F THEN Step(slide, <<"notes">>, NoError)
  ELSE Step(Wrote(slide, Write("notes", "notes_slide", <<text>>)), <<>>, NoError)

\* a fill that draws the image and still reports that nothing was placed
FillPictureUnreported(slide, image_blob, F) ==
  LET pic_ph == _first_placeholder(slide, PICTURE_TYPES)
  IN  IF pic_ph = NoShape THEN [step |-> Step(slide, <<>>, NoError), placed |-> FALSE]
      ELSE [step |-> Step(Wrote(slide, Write("picture", "insert_picture", <<image_blob>>)),
                          <<>>, NoError),
            placed |-> FALSE]

\* _fill_picture_placeholder_if_any: the step, and whether it returned True
_fill_picture_placeholder_if_any(slide, image_blob, F) ==
  LET pic_ph == _first_placeholder(slide, PICTURE_TYPES)
  IN  IF pic_ph = NoShape THEN [step |-> Step(slide, <<>>, NoError), placed |-> FALSE]
      ELSE IF "insert_picture" \notin F
      THEN [step |-> Step(Wrote(slide, Write("picture", "insert_picture", <<image_blob>>)),
                          <<>>, NoError),
            placed |-> TRUE]
      ELSE IF "add_picture_rect" \notin F
      THEN [step |-> Step(Wrote(slide, Write("picture", "placeholder_rect", <<image_blob>>)),
                          <<"insert_picture">>, NoError),
            placed |-> TRUE]
      ELSE [step |-> Step(slide, <<"insert_picture", "add_picture_rect">>, NoError),
            placed |-> FALSE]

\* if template_images and ((idx % 3 == 0) or len(bullets) <= 2)
ShouldPlace(images, i, bullets) ==
  images # <<>> /\ (i % ImageEvery = 0 \/ Len(bullets) <= SparseBullets)

\* a cycle that starts at the second image
ImageIndexFromOne(i, n) == (i + 1) % n

\* template_images[idx % len(template_images)], as a 0-based position
ImageIndex(i, n) == i % n

\* the image branch of the loop body
PlaceImage(slide, images, i, bullets, F) ==
  IF ~ShouldPlace(images, i, bullets) THEN Step(slide, <<>>, NoError)
  ELSE LET blob == images[ImageIndex(i, Len(images)) + 1]
           fill == _fill_picture_placeholder_if_any(slide, blob, F)
       IN  IF fill.placed THEN fill.step
           ELSE IF "add_picture_accent" \in F
           THEN Step(fill.step.slide, Append(fill.step.swallowed, "add_picture_accent"), NoError)
           ELSE Step(Wrote(fill.step.slide, Write("picture", "accent", <<blob>>)),
                     fill.step.swallowed, NoError)

(***************************************************************************)
(* build_presentation                                                      *)
(***************************************************************************)
\* images.append((shape.image.blob, ...)) for the picture shapes of every slide
RECURSIVE PicturesOf(_)
PicturesOf(shapes) ==
  IF shapes = <<>> THEN <<>>
  ELSE IF Head(shapes).kind = "picture"
       THEN <<Head(shapes).blob>> \o PicturesOf(Tail(shapes))
       ELSE PicturesOf(Tail(shapes))

RECURSIVE Collected(_)
Collected(slides) ==
  IF slides = <<>> THEN <<>>
  ELSE PicturesOf(Head(slides).shapes) \o Collected(Tail(slides))

\* random.shuffle(x) draws one value from the generator for each i from
\* len(x) - 1 down to 1, and none for a list shorter than two
Draws(n) == IF n >= 2 THEN n - 1 ELSE 0

\* k draws made by call c
Drawn(c, k) == IF k = 0 THEN <<>> ELSE [j \in 1..k |-> c]

\* x[i], x[j] = x[j], x[i], with i and j counted from 0
SwapAt(x, i, j) == [x EXCEPT ![i + 1] = x[j + 1], ![j + 1] = x[i + 1]]

\* the orders random.shuffle can leave a list in
Shuffles(images) ==
  IF images = <<>> THEN {<<>>} ELSE
  { [k \in DOMAIN images |-> images[f[k]]] :
      f \in { g \in [DOMAIN images -> DOMAIN images] :
                \A a, b \in DOMAIN images : a # b => g[a] # g[b] } }

\* prs.part.drop_rel(rId); sldIdLst.remove(sldId)
DropSlide(doc, sldId) ==
  LET keep(s) == s.rId # sldId
  IN  [doc EXCEPT !.rels = @ \ {sldId}, !.slides = SelectSeq(@, keep)]

RECURSIVE PurgeEach(_, _)
PurgeEach(doc, ids) ==
  IF ids = <<>> THEN doc
  ELSE PurgeEach(DropSlide(doc, Head(ids)), Tail(ids))

\* a purge that iterates the live list instead of a copy of it: removing the
\* element at the cursor makes the iteration skip the one after it
PurgeLiveList(doc) ==
  PurgeEach(doc, IF doc.slides = <<>> THEN <<>>
                 ELSE LET odd == { k \in DOMAIN doc.slides : k % 2 = 1 }
                      IN  [j \in 1..Cardinality(odd) |-> doc.slides[2 * j - 1].rId])

\* for sldId in list(sldIdLst): ...
_purge_all_existing_slides(doc) ==
  PurgeEach(doc, IF doc.slides = <<>> THEN <<>>
                 ELSE [k \in DOMAIN doc.slides |-> doc.slides[k].rId])

\* an order that purges before it harvests
PurgeBeforeCollect == <<"load", "purge", "collect", "loop", "save">>

\* The statements of build_presentation, in the order it runs them
BuildOrder == <<"load", "collect", "purge", "loop", "save">>

After(stmt) ==
  LET k == CHOOSE j \in DOMAIN BuildOrder : BuildOrder[j] = stmt
  IN  IF k = Len(BuildOrder) THEN "done" ELSE BuildOrder[k + 1]

\* a loop over an empty plan is left at once
RECURSIVE Goto(_, _)
Goto(stmt, plan) ==
  IF stmt = "loop" /\ plan = <<>> THEN Goto(After("loop"), plan) ELSE stmt

\* b follows a unless a raised; the swallowed exceptions add up
Then(a, b) ==
  IF a.raised # NoError THEN a
  ELSE [b EXCEPT !.swallowed = a.swallowed \o @]

\* One run of the loop body from the title on (the writes to `slide`)
FillSlide(slide, slide_data, images, i, F, cut) ==
  LET bullets == BulletsOf(slide_data)
      t == WriteTitle(slide, TitleText(slide_data), F)
      b == IF t.raised # NoError THEN t
           ELSE Then(t, WriteBody(t.slide, bullets, F, cut))
      n == IF b.raised # NoError THEN b
           ELSE Then(b, _ensure_notes(b.slide, Get(slide_data, "notes", ""), F))
  IN  IF n.raised # NoError THEN n
      ELSE Then(n, PlaceImage(n.slide, images, i, bullets, F))

\* a loop body that puts the replacement slide in the place of the first one
MakeSlidesReplacing(doc, li, i, F) ==
      IF ~CanIndex(doc.layouts, li) THEN [doc |-> doc, raised |-> "IndexError"]
      ELSE IF "add_slide" \in F THEN [doc |-> doc, raised |-> "add_slide"]
      ELSE LET first == add_slide(doc, li, i)
               better == ScanBody(doc.layouts, 0)
           IN  IF LacksBody(first.slides[Len(first.slides)]) /\ better # NotFound
               THEN [doc |-> add_slide(doc, better, i), raised |-> NoError]
               ELSE [doc |-> first, raised |-> NoError]

\* The slides the loop body adds for one entry: the one from the resolved
\* layout and, if that one lacks a body, one more from the first layout that
\* has a body.  `raised` names the call that raised, if one did.
MakeSlides(doc, li, i, F) ==
      IF ~CanIndex(doc.layouts, li) THEN [doc |-> doc, raised |-> "IndexError"]
      ELSE IF "add_slide" \in F THEN [doc |-> doc, raised |-> "add_slide"]
      ELSE LET first == add_slide(doc, li, i)
               better == ScanBody(doc.layouts, 0)
           IN  IF LacksBody(first.slides[Len(first.slides)]) /\ better # NotFound
               THEN IF "add_slide_again" \in F
                    THEN [doc |-> first, raised |-> "add_slide"]
                    ELSE [doc |-> add_slide(first, better, i), raised |-> NoError]
               ELSE [doc |-> first, raised |-> NoError]

\* the calls of one run of the loop body that may raise
FaultPoints ==
  {"add_slide", "add_slide_again", "set_text", "add_textbox_title", "set_bullets",
   "add_textbox_body", "notes", "insert_picture", "add_picture_rect",
   "add_picture_accent"}

\* The calls that raise in a run, as the environment of the run: `calls`
\* raise whenever they are made (in the first run of the loop body only, if
\* first_only), and a _set_bullets that raises has written `cut` paragraphs
\* (or all there are, if fewer).
Raising(calls, first_only, cut) ==
  [calls |-> calls, first_only |-> first_only, cut |-> cut]

NothingRaises == Raising({}, FALSE, 0)

BadImage == {"insert_picture", "add_picture_rect", "add_picture_accent"}

FaultScenarios ==
  {NothingRaises}
  \cup { Raising({c}, f, 0) : c \in FaultPoints, f \in BOOLEAN }
  \cup { Raising(cs, f, 1) :
           cs \in { {"set_bullets"}, {"set_text", "set_bullets", "notes"},
                    {"insert_picture", "add_picture_rect"}, BadImage },
           f \in BOOLEAN }

\* the calls that raise in the run of the loop body for entry i
RaisingAt(i) ==
  IF raising.first_only /\ i > 0 THEN {} ELSE raising.calls

Tagged(i, calls) ==
  IF calls = <<>> THEN <<>> ELSE [k \in DOMAIN calls |-> <<i, calls[k]>>]

ReplaceLast(doc, slide) == [doc EXCEPT !.slides[Len(doc.slides)] = slide]

\* prs = Presentation(io.BytesIO(template_bytes))
Load ==
  /\ pc = "load"
  /\ \/ /\ prs' = template_bytes
        /\ pc' = Goto(After("load"), slides_plan)
        /\ UNCHANGED error
     \/ /\ pc' = "failed"
        /\ error' = "load"
        /\ UNCHANGED prs
  /\ UNCHANGED <<rng, shuffle_i, template_bytes, raw_slides, slides_plan, normalized, raising, template_images,
                 idx, layout_idx, placements, purges, harvest_log, suppressed, out>>

\* template_images = _collect_template_images(prs)
Collect ==
  /\ pc = "collect"
  /\ template_images' \in Shuffles(Collected(prs.slides))
  /\ rng' = rng \o Drawn(1, Draws(Len(Collected(prs.slides))))
  /\ harvest_log' = <<[slides |-> prs.slides, purges |-> purges]>>
  /\ pc' = Goto(After("collect"), slides_plan)
  /\ UNCHANGED <<shuffle_i, template_bytes, prs, raw_slides, slides_plan, normalized, raising, idx,
                 layout_idx, placements, purges, suppressed, error, out>>

\* _purge_all_existing_slides(prs)
Purge ==
  /\ pc = "purge"
  /\ prs' = _purge_all_existing_slides(prs)
  /\ purges' = purges + 1
  /\ pc' = Goto(After("purge"), slides_plan)
  /\ UNCHANGED <<rng, shuffle_i, template_bytes, raw_slides, slides_plan, normalized, raising, template_images,
                 idx, layout_idx, placements, harvest_log, suppressed, error, out>>

\* one run of the body of `for idx, slide_data in enumerate(slides_plan)`
BuildSlide ==
  /\ pc = "loop"
  /\ idx < Len(slides_plan)
  /\ LET slide_data == slides_plan[idx + 1]
         li == _find_layout_index(prs.layouts, HintOf(slide_data))
         F == RaisingAt(idx)
         made == MakeSlides(prs, li, idx, F)
         fill == FillSlide(made.doc.slides[Len(made.doc.slides)], slide_data,
                           template_images, idx, F, raising.cut)
     IN
        /\ layout_idx' = li
        /\ IF made.raised # NoError
              THEN /\ prs' = made.doc
                   /\ error' = made.raised
                   /\ pc' = "failed"
                   /\ UNCHANGED <<idx, placements, suppressed>>
              ELSE /\ prs' = ReplaceLast(made.doc, fill.slide)
                   /\ suppressed' = suppressed \o Tagged(idx, fill.swallowed)
                   /\ placements' =
                        IF ShouldPlace(template_images, idx, BulletsOf(slide_data))
                        THEN Append(placements,
                                    <<idx, ImageIndex(idx, Len(template_images))>>)
                        ELSE placements
                   /\ IF fill.raised # NoError
                      THEN /\ error' = fill.raised
                           /\ pc' = "failed"
                           /\ UNCHANGED idx
                      ELSE /\ idx' = idx + 1
                           /\ pc' = IF idx + 1 < Len(slides_plan) THEN "loop"
                                    ELSE After("loop")
                           /\ UNCHANGED error
  /\ UNCHANGED <<rng, shuffle_i, template_bytes, raw_slides, slides_plan, normalized, raising, template_images,
                 purges, harvest_log, out>>

\* prs.save(out); return out.getvalue()
Save ==
  /\ pc = "save"
  /\ \/ /\ out' = <<prs>>
        /\ pc' = After("save")
        /\ UNCHANGED error
     \/ /\ pc' = "failed"
        /\ error' = "save"
        /\ UNCHANGED out
  /\ UNCHANGED <<rng, shuffle_i, template_bytes, prs, raw_slides, slides_plan, normalized, raising,
                 template_images, idx, layout_idx, placements, purges, harvest_log,
                 suppressed>>

(***************************************************************************)
(* Inputs of the build runs                                                *)
(***************************************************************************)
MaxPlanLen == 5
MaxImages  == 2

\* the document before Presentation(...) has parsed the template
NotLoaded == [layouts |-> <<>>, slides |-> <<>>, master |-> "not loaded", rels |-> {}]

BuildLayoutsPlain ==
  << Layout(S_TitleAndContent, <<Ph("TITLE", TRUE), Ph("OBJECT", TRUE), Ph("FOOTER", TRUE)>>) >>

BuildLayouts ==
  { <<>>,
    BuildLayoutsPlain,
    << Layout(N_TITLE_ONLY, <<Ph("TITLE", TRUE)>>) >>,
    << Layout(S_TitleSlide, <<Ph("CENTER_TITLE", TRUE), Ph("SUBTITLE", TRUE)>>),
       Layout(S_TitleAndContent, <<Ph("TITLE", TRUE), Ph("OBJECT", TRUE)>>) >>,
    << Layout(N_Blank, <<>>),
       Layout(N_PictureWithCaption,
              <<Ph("TITLE", TRUE), Ph("BODY", TRUE), Ph("PICTURE", TRUE)>>) >>,
    << Layout(N_Unnamed, <<Ph("FOOTER", TRUE)>>) >> }

ImageNames == <<"imgA", "imgB", "imgC", "imgD">>

\* a slide the template came with: one picture and one text box, or just text
TemplateSlide(rId, shapes) ==
  [origin |-> "template", entry |-> NotFound, rId |-> rId, layout |-> 0,
   placeholders |-> <<>>, shapes |-> shapes, writes |-> <<>>]

Picture(blob) == [kind |-> "picture", blob |-> blob]
TextBox       == [kind |-> "textbox", blob |-> ""]

\* n slides with one picture each, after `lead` slides without a picture
TemplateSlides(n, lead) ==
  IF lead + n = 0 THEN <<>> ELSE
  [k \in 1..(lead + n) |->
     IF k <= lead THEN TemplateSlide(k, <<TextBox>>)
     ELSE TemplateSlide(k, <<TextBox, Picture(ImageNames[k - lead])>>)]

\* a template without slides, or one with a text slide and n picture slides
Templates ==
  { Document(ls, sl) :
      ls \in BuildLayouts,
      sl \in {<<>>} \cup { TemplateSlides(n, 1) : n \in 0..MaxImages } }

Chars == <<"a", "b", "c", "d", "e", "f", "g">>
Text(n) == IF n = 0 THEN <<>> ELSE [k \in 1..n |-> Chars[(k % Len(Chars)) + 1]]
\* n bullets; a bullet is known by its number
Bullets(n) == IF n = 0 THEN <<>> ELSE [k \in 1..n |-> k]

EntryPool ==
  << [title |-> Text(3), bullets |-> Bullets(2),
      layout_hint |-> "title_and_content", notes |-> "say this"],
     [title |-> Text(TitleCap + 1), bullets |-> Bullets(BulletCap + 1),
      layout_hint |-> "section_header"],
     [bullets |-> Bullets(3), layout_hint |-> "", notes |-> ""],
     [title |-> Text(TitleCap), bullets |-> Bullets(BulletCap), notes |-> "say that"],
     [title |-> <<>>, layout_hint |-> "title_only", notes |-> PyNone] >>

\* the plan of n entries that walks EntryPool from `first` in steps of `stride`
PlanFrom(first, stride, n) ==
  IF n = 0 THEN <<>> ELSE
  [k \in 1..n |-> EntryPool[((first + stride * (k - 1)) % Len(EntryPool)) + 1]]

PlanShapes == { <<0, 0>>, <<1, 1>>, <<2, 3>> }

Plans == { PlanFrom(sh[1], sh[2], n) : sh \in PlanShapes, n \in 0..MaxPlanLen }

\* The runs with calls that raise are made on the templates that take the
\* loop body through its placeholder, its replacement-slide and its text-box
\* branches, with plans that have notes and bullets.
FaultTemplates ==
  { Document(ls, TemplateSlides(MaxImages, 1)) :
      ls \in { ls \in BuildLayouts :
                 /\ ls # <<>>
                 /\ ls[1].name \in {S_TitleSlide, N_Blank, N_Unnamed} } }

FaultPlans == { PlanFrom(0, 1, MaxPlanLen), PlanFrom(3, 1, 2) }

\* one plan longer than plan_slides_via_llm lets a plan be, handed to
\* build_presentation as it is
LongPlans == { PlanFrom(0, 0, PlanCap + 1) }

Runs ==
  [template : Templates, plan : Plans, raising : {NothingRaises}]
  \cup [template : FaultTemplates, plan : FaultPlans, raising : FaultScenarios]
  \cup [template : {Document(BuildLayoutsPlain, <<>>)}, plan : LongPlans,
        raising : {NothingRaises}]

Init ==
  /\ pc = "load"
  /\ \E run \in Runs :
       /\ template_bytes = run.template
       /\ raw_slides = run.plan
       /\ raising = run.raising
  /\ prs = NotLoaded
  /\ slides_plan = raw_slides
  /\ normalized = FALSE
  /\ template_images = <<>>
  /\ idx = 0
  /\ layout_idx = NotFound
  /\ placements = <<>>
  /\ purges = 0
  /\ harvest_log = <<>>
  /\ suppressed = <<>>
  /\ error = NoError
  /\ out = NoOutput
  /\ rng = <<>>
  /\ shuffle_i = 0

Next == Load \/ Collect \/ Purge \/ BuildSlide \/ Save

Spec == Init /\ [][Next]_vars

(***************************************************************************)
(* Layout resolution on its own: one entry, one call                       *)
(***************************************************************************)
LInit ==
  /\ pc = "l_start"
  /\ template_bytes \in { Document(ls, <<>>) : ls \in LayoutTemplates }
  /\ prs = template_bytes
  /\ raw_slides \in { <<e>> : e \in HintEntries }
  /\ slides_plan = raw_slides
  /\ normalized = FALSE
  /\ raising = NothingRaises
  /\ template_images = <<>>
  /\ idx = 0
  /\ layout_idx = NotFound
  /\ placements = <<>>
  /\ purges = 0
  /\ harvest_log = <<>>
  /\ suppressed = <<>>
  /\ error = NoError
  /\ out = NoOutput
  /\ rng = <<>>
  /\ shuffle_i = 0

\* plan_slides_via_llm normalises what the provider returned
LPlanSlides ==
  /\ pc = "l_start"
  /\ \E include_notes \in BOOLEAN :
       slides_plan' = Normalize(raw_slides, include_notes)
  /\ normalized' = TRUE
  /\ pc' = "l_planned"
  /\ UNCHANGED <<rng, shuffle_i, template_bytes, prs, raw_slides, raising, template_images, idx, layout_idx, placements,
                 purges, harvest_log, suppressed, error, out>>

\* build_presentation's first two statements of the loop body, for entry 0
LFindLayout ==
  /\ pc \in {"l_start", "l_planned"}
  /\ layout_idx' = _find_layout_index(prs.layouts, HintOf(slides_plan[1]))
  /\ error' = IF CanIndex(prs.layouts, layout_idx') THEN NoError ELSE "IndexError"
  /\ pc' = "l_found"
  /\ UNCHANGED <<rng, shuffle_i, template_bytes, prs, raw_slides, slides_plan, normalized, raising, template_images, idx,
                 placements, purges, harvest_log, suppressed, out>>

LNext == LPlanSlides \/ LFindLayout

SpecLayout == LInit /\ [][LNext]_vars

(***************************************************************************)
(* Two calls of build_presentation running in one process (two requests    *)
(* served by threads).  Every local of build_presentation exists once per  *)
(* call: under SpecConcurrent a variable that holds a local holds one      *)
(* value per call.  The generator behind random.shuffle exists once per    *)
(* process.  A thread can be switched out between any two statements, and  *)
(* between two draws of a shuffle.                                         *)
(***************************************************************************)
Calls == {1, 2}

\* a store in which every call sees the value the last call wrote
StoreForAll(f, c, v) == [d \in DOMAIN f |-> v]

\* call c binds its own local to v; the locals of the other call stay
Local(f, c, v) == [f EXCEPT ![c] = v]

\* the body of the loop of build_presentation when no call raises but the
\* unguarded ones
RunLoopBody(doc, slide_data, images, i) ==
  LET li   == _find_layout_index(doc.layouts, HintOf(slide_data))
      made == MakeSlides(doc, li, i, {})
      fill == FillSlide(made.doc.slides[Len(made.doc.slides)], slide_data, images, i, {}, 0)
  IN  IF made.raised # NoError
      THEN [doc |-> made.doc, li |-> li, raised |-> made.raised]
      ELSE [doc |-> ReplaceLast(made.doc, fill.slide), li |-> li, raised |-> NoError]

ConcTemplates ==
  { Document(<<>>, <<>>),
    Document(BuildLayoutsPlain, TemplateSlides(MaxImages, 0)),
    Document(<<Layout(N_Unnamed, <<Ph("FOOTER", TRUE)>>)>>, TemplateSlides(1, 1)) }

ConcPlans == { PlanFrom(0, 1, 1), PlanFrom(3, 1, 2) }

CInit ==
  /\ pc = [c \in Calls |-> "load"]
  /\ template_bytes \in [Calls -> ConcTemplates]
  /\ raw_slides \in [Calls -> ConcPlans]
  /\ slides_plan = raw_slides
  /\ normalized = FALSE
  /\ raising = NothingRaises
  /\ prs = [c \in Calls |-> NotLoaded]
  /\ template_images = [c \in Calls |-> <<>>]
  /\ idx = [c \in Calls |-> 0]
  /\ layout_idx = [c \in Calls |-> NotFound]
  /\ placements = [c \in Calls |-> <<>>]
  /\ purges = [c \in Calls |-> 0]
  /\ harvest_log = [c \in Calls |-> <<>>]
  /\ suppressed = [c \in Calls |-> <<>>]
  /\ error = [c \in Calls |-> NoError]
  /\ out = [c \in Calls |-> NoOutput]
  /\ shuffle_i = [c \in Calls |-> 0]
  /\ rng = <<>>

\* prs = Presentation(io.BytesIO(template_bytes))
CLoad(c) ==
  /\ pc[c] = "load"
  /\ \/ /\ prs' = Local(prs, c, template_bytes[c])
        /\ pc' = Local(pc, c, Goto(After("load"), slides_plan[c]))
        /\ UNCHANGED error
     \/ /\ pc' = Local(pc, c, "failed")
        /\ error' = Local(error, c, "load")
        /\ UNCHANGED prs
  /\ UNCHANGED <<template_bytes, raw_slides, slides_plan, normalized, raising, template_images,
                 idx, layout_idx, placements, purges, harvest_log, suppressed, out,
                 rng, shuffle_i>>

\* _collect_template_images up to the call of random.shuffle
CHarvest(c) ==
  /\ pc[c] = "collect"
  /\ LET images == Collected(prs[c].slides)
     IN  /\ template_images' = Local(template_images, c, images)
         /\ shuffle_i' = Local(shuffle_i, c, Len(images) - 1)
         /\ pc' = Local(pc, c, IF Draws(Len(images)) > 0 THEN "shuffle"
                               ELSE Goto(After("collect"), slides_plan[c]))
  /\ UNCHANGED <<template_bytes, prs, raw_slides, slides_plan, normalized, raising, idx,
                 layout_idx, placements, purges, harvest_log, suppressed, error, out, rng>>

\* one turn of the loop of random.shuffle: j = randbelow(i + 1), then the swap.
\* The generator is seeded by the system, so j is any value in range.
CDraw(c) ==
  /\ pc[c] = "shuffle"
  /\ \E j \in 0..shuffle_i[c] :
       template_images' =
         Local(template_images, c, SwapAt(template_images[c], shuffle_i[c], j))
  /\ rng' = Append(rng, c)
  /\ shuffle_i' = Local(shuffle_i, c, shuffle_i[c] - 1)
  /\ pc' = Local(pc, c, IF shuffle_i[c] - 1 >= 1 THEN "shuffle"
                        ELSE Goto(After("collect"), slides_plan[c]))
  /\ UNCHANGED <<template_bytes, prs, raw_slides, slides_plan, normalized, raising, idx,
                 layout_idx, placements, purges, harvest_log, suppressed, error, out>>

\* _purge_all_existing_slides(prs)
CPurge(c) ==
  /\ pc[c] = "purge"
  /\ prs' = Local(prs, c, _purge_all_existing_slides(prs[c]))
  /\ purges' = Local(purges, c, purges[c] + 1)
  /\ pc' = Local(pc, c, Goto(After("purge"), slides_plan[c]))
  /\ UNCHANGED <<template_bytes, raw_slides, slides_plan, normalized, raising, template_images,
                 idx, layout_idx, placements, harvest_log, suppressed, error, out,
                 rng, shuffle_i>>

\* one run of the body of the loop over slides_plan
CBuildSlide(c) ==
  /\ pc[c] = "loop"
  /\ idx[c] < Len(slides_plan[c])
  /\ LET body == RunLoopBody(prs[c], slides_plan[c][idx[c] + 1], template_images[c], idx[c])
     IN  /\ layout_idx' = Local(layout_idx, c, body.li)
         /\ prs' = Local(prs, c, body.doc)
         /\ IF body.raised # NoError
            THEN /\ error' = Local(error, c, body.raised)
                 /\ pc' = Local(pc, c, "failed")
                 /\ UNCHANGED idx
            ELSE /\ idx' = Local(idx, c, idx[c] + 1)
                 /\ pc' = Local(pc, c, IF idx[c] + 1 < Len(slides_plan[c]) THEN "loop"
                                       ELSE After("loop"))
                 /\ UNCHANGED error
  /\ UNCHANGED <<template_bytes, raw_slides, slides_plan, normalized, raising, template_images,
                 placements, purges, harvest_log, suppressed, out, rng, shuffle_i>>

\* prs.save(out); return out.getvalue()
CSave(c) ==
  /\ pc[c] = "save"
  /\ \/ /\ out' = Local(out, c, <<prs[c]>>)
        /\ pc' = Local(pc, c, After("save"))
        /\ UNCHANGED error
     \/ /\ pc' = Local(pc, c, "failed")
        /\ error' = Local(error, c, "save")
        /\ UNCHANGED out
  /\ UNCHANGED <<template_bytes, prs, raw_slides, slides_plan, normalized, raising,
                 template_images, idx, layout_idx, placements, purges, harvest_log,
                 suppressed, rng, shuffle_i>>

CNext ==
  \E c \in Calls :
    CLoad(c) \/ CHarvest(c) \/ CDraw(c) \/ CPurge(c) \/ CBuildSlide(c) \/ CSave(c)

SpecConcurrent == CInit /\ [][CNext]_vars


(***************************************************************************)
(* Layout resolution, stated without the loops                             *)
(***************************************************************************)
MinOf(S) == CHOOSE m \in S : \A n \in S : m <= n

\* 0-based positions of the layouts whose name has the pattern
Matching(layouts, pattern) ==
  { i \in 0..(Len(layouts) - 1) :
      Contains(lower(pattern), lower(layouts[i + 1].name)) }

\* positions in `patterns` of the patterns some layout matches
Hits(layouts, patterns) ==
  { k \in DOMAIN patterns : Matching(layouts, patterns[k]) # {} }

\* the patterns the table gives for a hint
PatternsFor(hint) ==
  IF \E k \in DOMAIN LAYOUT_PREFS : LAYOUT_PREFS[k][1] = hint
  THEN LAYOUT_PREFS[MinOf({k \in DOMAIN LAYOUT_PREFS : LAYOUT_PREFS[k][1] = hint})][2]
  ELSE <<S_TitleAndContent, S_TitleOnly>>

WithBody(layouts) ==
  { i \in 0..(Len(layouts) - 1) :
      \E k \in DOMAIN layouts[i + 1].placeholders :
         LET ph == layouts[i + 1].placeholders[k]
         IN  ph.type \in {"BODY", "OBJECT"}
             \/ (ph.type \notin {"TITLE", "CENTER_TITLE", "SUBTITLE"} /\ ph.tf) }

ExpectedByName(layouts, patterns) ==
  MinOf(Matching(layouts, patterns[MinOf(Hits(layouts, patterns))]))

ExpectedFallback(layouts) ==
  IF WithBody(layouts) # {} THEN MinOf(WithBody(layouts))
  ELSE IF Matching(layouts, S_title) # {} THEN MinOf(Matching(layouts, S_title))
  ELSE 0

ExpectedIndex(layouts, patterns) ==
  IF Hits(layouts, patterns) # {} THEN ExpectedByName(layouts, patterns)
  ELSE ExpectedFallback(layouts)

\* the hint the resolved entry carried when build_presentation read it
UsedHint == Get(slides_plan[1], "layout_hint", "title_and_content")

\* C2: when some layout name contains one of the hint's patterns, the index
\* returned is that of the first layout (template order) matching the first
\* pattern (preference order) that matches anything; bodies and positions of
\* other layouts play no part.
C2_NameMatchWins ==
  (pc = "l_found" /\ Hits(prs.layouts, PatternsFor(UsedHint)) # {})
    => layout_idx = ExpectedByName(prs.layouts, PatternsFor(UsedHint))

\* C2 witness: a later layout is returned although an earlier layout has a
\* body and matches a less preferred pattern.
C2_Witness ==
  /\ pc = "l_found"
  /\ Hits(prs.layouts, PatternsFor(UsedHint)) # {}
  /\ layout_idx = 1
  /\ 0 \in WithBody(prs.layouts)
  /\ \E k \in Hits(prs.layouts, PatternsFor(UsedHint)) :
        0 \in Matching(prs.layouts, PatternsFor(UsedHint)[k])

\* C3: when no layout name contains any pattern of the hint, the index is the
\* first layout with a body, else the first layout named "...title...", else 0.
C3_FallbackOrder ==
  (pc = "l_found" /\ Hits(prs.layouts, PatternsFor(UsedHint)) = {})
    => layout_idx = ExpectedFallback(prs.layouts)

\* C3 witness: no name matches, and the layout with a body at position 1 is
\* returned although position 0 is named "...title...".
C3_Witness ==
  /\ pc = "l_found"
  /\ Hits(prs.layouts, PatternsFor(UsedHint)) = {}
  /\ layout_idx = 1
  /\ 0 \in Matching(prs.layouts, S_title)
  /\ 0 \notin WithBody(prs.layouts)

\* C4 as claimed: for every template the index returned can be used to pick
\* a layout, so that no layout-resolution error surfaces.
C4_AlwaysUsable ==
  pc = "l_found" =>
    (0 <= layout_idx /\ layout_idx < Len(prs.layouts) /\ error = NoError)

\* C4 amended: for every template that has at least one layout, the index
\* returned is within the layouts and picking the layout raises nothing.
C4_UsableWhenLayoutsExist ==
  (pc = "l_found" /\ Len(prs.layouts) >= 1) =>
    (0 <= layout_idx /\ layout_idx < Len(prs.layouts) /\ error = NoError)

\* C4 witness: an unknown hint on a template where only the last tier applies.
C4_Witness ==
  /\ pc = "l_found"
  /\ Len(prs.layouts) = MaxLayouts
  /\ UsedHint \notin KnownHints
  /\ Hits(prs.layouts, PatternsFor(UsedHint)) = {}
  /\ WithBody(prs.layouts) = {}
  /\ Matching(prs.layouts, S_title) = {}
  /\ layout_idx = 0

RawHintAbsent == "layout_hint" \notin DOMAIN raw_slides[1]
RawHintEmpty  == ~RawHintAbsent /\ raw_slides[1].layout_hint = ""
RawHintNull   == ~RawHintAbsent /\ raw_slides[1].layout_hint = PyNone

TitleAndContentPatterns ==
  <<S_TitleAndContent, S_ContentWithCaption, S_TitleAndContentParen2,
    S_TitleAndContent2>>

\* C10 as claimed: an entry whose hint is absent or empty gets the layout
\* that the hint title_and_content gets, on every template.
C10_AbsentOrEmptyIsTitleAndContent ==
  (pc = "l_found" /\ (RawHintAbsent \/ RawHintEmpty))
    => layout_idx = ExpectedIndex(prs.layouts, TitleAndContentPatterns)

\* C10 amended: an entry whose hint is absent gets the layout of
\* title_and_content; so does an entry whose hint is empty or null once
\* plan_slides_via_llm has normalised the plan.
C10_AbsentOrNormalizedIsTitleAndContent ==
  (pc = "l_found"
     /\ (RawHintAbsent \/ (normalized /\ (RawHintEmpty \/ RawHintNull))))
    => layout_idx = ExpectedIndex(prs.layouts, TitleAndContentPatterns)

\* C10 witness: an absent hint resolved, without normalisation, on a template
\* where the default pattern list would have picked another layout.
C10_Witness ==
  /\ pc = "l_found"
  /\ RawHintAbsent
  /\ ~normalized
  /\ layout_idx = 1
  /\ ExpectedIndex(prs.layouts, <<S_TitleAndContent, S_TitleOnly>>) = 0
(***************************************************************************)
(* The build, stated over its result                                       *)
(***************************************************************************)
SeqRange(q) == { q[k] : k \in DOMAIN q }

\* the slides of a document made for plan entry i (0-based), in order
SlidesFor(doc, i) ==
  LET mine(sl) == sl.origin = "plan" /\ sl.entry = i
  IN  SelectSeq(doc.slides, mine)

\* the slide the entry's text went to: the last one made for it
TargetOf(doc, i) == SlidesFor(doc, i)[Len(SlidesFor(doc, i))]

WritesOf(slide, op) ==
  LET is(w) == w.op = op
  IN  SelectSeq(slide.writes, is)

\* the entries the loop has finished
Done == 0..(idx - 1)

SwallowedAt(i) == { e[2] : e \in { x \in SeqRange(suppressed) : x[1] = i } }

RawTitle(i)   == Get(slides_plan[i + 1], "title", <<>>)
RawBullets(i) == Get(slides_plan[i + 1], "bullets", <<>>)

IsPrefixOfLen(data, whole, n) ==
  /\ Len(data) = n
  /\ \A k \in 1..n : data[k] = whole[k]

TitleWrittenRight(i) ==
  LET w == WritesOf(TargetOf(prs, i), "title")
  IN  /\ Len(w) = 1
      /\ w[1].via \in {"placeholder", "textbox"}
      /\ IsPrefixOfLen(w[1].data, RawTitle(i), Min(Len(RawTitle(i)), 200))

BulletsWrittenRight(i) ==
  LET w == WritesOf(TargetOf(prs, i), "bullets")
  IN  /\ Len(w) = 1
      /\ w[1].via \in {"placeholder", "textbox"}
      /\ IsPrefixOfLen(w[1].data, RawBullets(i), Min(Len(RawBullets(i)), 12))

\* C1 as claimed: on a template with at least one layout, the finished
\* document has min(len(plan), 30) slides, one per plan entry.
C1_OneSlidePerEntry ==
  (pc = "done" /\ Len(template_bytes.layouts) >= 1)
    => Len(out[1].slides) = Min(Len(slides_plan), 30)

C6_PurgeFrame ==
  [][(pc = "purge" /\ purges' = purges + 1)
       => /\ prs'.slides = <<>>
          /\ prs'.rels = {}
          /\ prs'.layouts = prs.layouts
          /\ prs'.master = prs.master
          /\ template_images' = template_images]_vars

\* C6 witness: a template with several slides and layouts has been purged.
C6_Witness ==
  /\ purges = 1 /\ idx = 0 /\ pc = "loop"
  /\ Len(template_bytes.slides) >= 2
  /\ prs.slides = <<>>
  /\ Len(prs.layouts) >= 2

PicturesIn(slides) ==
  UNION { { sh.blob : sh \in { x \in SeqRange(slides[k].shapes) : x.kind = "picture" } } :
          k \in DOMAIN slides }

\* C7: the harvest runs before the purge, the purge runs once, both before
\* the first slide is made; no template slide is in the result and every
\* harvested image was read from a slide that was still in the document.
C7_HarvestThenPurgeThenBuild ==
  /\ purges <= 1
  /\ purges = 1 => (harvest_log # <<>> /\ harvest_log[1].purges = 0)
  /\ (idx > 0 \/ \E k \in DOMAIN prs.slides : prs.slides[k].origin = "plan")
       => (purges = 1 /\ harvest_log # <<>>)
  /\ harvest_log # <<>> =>
       /\ harvest_log[1].slides = template_bytes.slides
       /\ SeqRange(template_images) =
            PicturesIn(harvest_log[1].slides)
  /\ pc = "done" => \A k \in DOMAIN out[1].slides : out[1].slides[k].origin = "plan"

\* C7 witness: a finished build of a template that had slides with pictures.
C7_Witness ==
  /\ pc = "done"
  /\ Len(template_bytes.slides) >= 2
  /\ Len(template_images) >= 2
  /\ Len(out[1].slides) >= 2

PlacedFor(i) == { p \in SeqRange(placements) : p[1] = i }

PictureBlobs(slide) ==
  { w.data[1] : w \in SeqRange(WritesOf(slide, "picture")) }

\* C8: with no harvested image no placement is attempted; with n > 0 a
\* placement is attempted for entry idx exactly when idx mod 3 = 0 or the
\* entry has at most 2 bullets after truncation, with image idx mod n; two
\* images and five eligible entries give the indices 0,1,0,1,0.
C8_ImageCycle ==
  LET n == Len(template_images)
  IN  /\ n = 0 => (placements = <<>> /\
                   \A k \in DOMAIN prs.slides : WritesOf(prs.slides[k], "picture") = <<>>)
      /\ \A i \in Done :
           /\ (PlacedFor(i) # {}) <=>
                (n > 0 /\ (i % 3 = 0 \/ Min(Len(RawBullets(i)), 12) <= 2))
           /\ \A p \in PlacedFor(i) : p[2] = i % n
           /\ \A b \in PictureBlobs(TargetOf(prs, i)) : b = template_images[(i % n) + 1]
      /\ (n = 2 /\ idx = 5 /\ Len(placements) = 5)
           => [k \in 1..5 |-> placements[k][2]] = <<0, 1, 0, 1, 0>>

\* C8 witness: two images, five eligible entries, indices 0,1,0,1,0, each
\* image drawn on its slide.
C8_Witness ==
  /\ pc = "done"
  /\ Len(template_images) = 2
  /\ Len(placements) >= 5
  /\ \A k \in 1..5 : placements[k] = <<k - 1, (k - 1) % 2>>
  /\ \A i \in 0..4 : PictureBlobs(TargetOf(prs, i)) = {template_images[(i % 2) + 1]}

\* the calls of steps 3 to 6: title write, body write, notes, image
WriteCalls ==
  {"set_text", "add_textbox_title", "set_bullets", "add_textbox_body", "notes",
   "insert_picture", "add_picture_rect", "add_picture_accent"}

HasNoBodyTarget(slide) ==
  \A k \in DOMAIN slide.placeholders :
    LET ph == slide.placeholders[k]
    IN  /\ ph.type \notin {"BODY", "OBJECT"}
        /\ (ph.type \in {"TITLE", "CENTER_TITLE", "SUBTITLE"} \/ ~ph.tf)

NotesOf(i) == Get(slides_plan[i + 1], "notes", "")

\* C12: for every entry the loop has finished, a replacement slide exists
\* exactly when the first-created slide has no body target and some layout
\* has a body; it is made from the first such layout, it is the slide that
\* carries the entry's title, bullets, notes and image, and the first-created
\* slide carries nothing and is still in the document.
C12_ReplacementTakesTheWrites ==
  \A i \in Done :
    LET mine  == SlidesFor(prs, i)
        first == mine[1]
    IN  /\ Len(mine) \in {1, 2}
        /\ Len(mine) = 2 <=> (HasNoBodyTarget(first) /\ WithBody(prs.layouts) # {})
        /\ Len(mine) = 2 =>
             /\ mine[2].layout = MinOf(WithBody(prs.layouts))
             /\ first.writes = <<>>
             /\ first.shapes = <<>>
             /\ SwallowedAt(i) = {} =>
                  /\ Len(WritesOf(mine[2], "title")) = 1
                  /\ Len(WritesOf(mine[2], "bullets")) = 1
                  /\ (WritesOf(mine[2], "notes") # <<>>) <=> Truthy(NotesOf(i))
                  /\ (WritesOf(mine[2], "picture") # <<>>) <=> (PlacedFor(i) # {})

\* C12 witness: a finished build in which an entry that is not the last got
\* a replacement slide with its title, bullets, notes and image, next to an
\* empty first-created slide.
C12_Witness ==
  /\ pc = "done"
  /\ \E i \in Done :
       /\ i + 1 < idx
       /\ Len(SlidesFor(out[1], i)) = 2
       /\ SlidesFor(out[1], i)[1].writes = <<>>
       /\ \A op \in {"title", "bullets", "notes", "picture"} :
            WritesOf(SlidesFor(out[1], i)[2], op) # <<>>

HasPicturePlaceholder(slide) ==
  \E k \in DOMAIN slide.placeholders :
    slide.placeholders[k].type \in {"PICTURE", "SLIDE_IMAGE"}

PictureVias(slide) ==
  { w.via : w \in SeqRange(WritesOf(slide, "picture")) }

\* C13: every slide carries at most one placed image, every entry places at
\* most one image over all its slides, and an image at the accent position
\* is there only if the slide has no picture placeholder or both ways of
\* filling the placeholder raised.
C13_AtMostOneImage ==
  /\ \A k \in DOMAIN prs.slides : Len(WritesOf(prs.slides[k], "picture")) <= 1
  /\ \A i \in Done :
       /\ Cardinality({ k \in DOMAIN prs.slides :
                          /\ prs.slides[k].origin = "plan"
                          /\ prs.slides[k].entry = i
                          /\ WritesOf(prs.slides[k], "picture") # <<>> }) <= 1
       /\ "accent" \in PictureVias(TargetOf(prs, i)) =>
            \/ ~HasPicturePlaceholder(TargetOf(prs, i))
            \/ {"insert_picture", "add_picture_rect"} \subseteq SwallowedAt(i)
       /\ (HasPicturePlaceholder(TargetOf(prs, i)) /\ PlacedFor(i) # {}
             /\ "insert_picture" \notin SwallowedAt(i))
            => PictureVias(TargetOf(prs, i)) = {"insert_picture"}

\* C13 witness: on a slide with a picture placeholder both ways of filling
\* it raised, and the slide carries exactly the accent image.
C13_Witness ==
  /\ pc = "done"
  /\ \E i \in Done :
       /\ HasPicturePlaceholder(TargetOf(prs, i))
       /\ {"insert_picture", "add_picture_rect"} \subseteq SwallowedAt(i)
       /\ Len(WritesOf(TargetOf(prs, i), "picture")) = 1
       /\ PictureVias(TargetOf(prs, i)) = {"accent"}

(***************************************************************************)
(* Concurrent calls, stated over what each call would do alone             *)
(***************************************************************************)
\* the document of a call alone after `upto` runs of the loop body
RECURSIVE AloneFrom(_, _, _, _, _)
AloneFrom(doc, plan, images, i, upto) ==
  IF i >= upto THEN doc
  ELSE LET body == RunLoopBody(doc, plan[i + 1], images, i)
       IN  IF body.raised # NoError THEN body.doc
           ELSE AloneFrom(body.doc, plan, images, i + 1, upto)

Emptied(doc) == [doc EXCEPT !.slides = <<>>, !.rels = {}]

\* the harvested images of a template in some order
IsPoolOf(images, template) ==
  /\ Len(images) = Cardinality(PicturesIn(template.slides))
  /\ SeqRange(images) = PicturesIn(template.slides)

\* what the locals of call c are when the call runs alone with the pool
\* order it has, at the place it is at
AloneAt(c) ==
  LET t == template_bytes[c]
  IN  CASE pc[c] = "load" -> prs[c] = NotLoaded /\ template_images[c] = <<>>
        [] pc[c] = "failed" /\ error[c] = "load" ->
             prs[c] = NotLoaded /\ template_images[c] = <<>>
        [] pc[c] = "collect" -> prs[c] = t /\ template_images[c] = <<>>
        [] pc[c] \in {"shuffle", "purge"} ->
             prs[c] = t /\ IsPoolOf(template_images[c], t)
        [] OTHER ->
             /\ IsPoolOf(template_images[c], t)
             /\ prs[c] = AloneFrom(Emptied(t), slides_plan[c], template_images[c], 0, idx[c])
             /\ pc[c] = "done" => (out[c] = <<prs[c]>> /\ idx[c] = Len(slides_plan[c]))
             /\ pc[c] = "failed" => error[c] \in {"IndexError", "save"}

DrawsBy(c) == Cardinality({ k \in DOMAIN rng : rng[k] = c })

\* the draws call c has made are those of its own shuffle
OwnDraws(c) ==
  LET n == Cardinality(PicturesIn(template_bytes[c].slides))
  IN  DrawsBy(c) =
        CASE pc[c] \in {"load", "collect"} -> 0
          [] pc[c] = "failed" /\ error[c] = "load" -> 0
          [] pc[c] = "shuffle" -> (n - 1) - shuffle_i[c]
          [] OTHER -> IF n >= 2 THEN n - 1 ELSE 0

RngUsers == { rng[k] : k \in DOMAIN rng }

\* C11 as claimed: each of two concurrent calls produces what it could
\* produce alone, pool order included, and no state is read or written by
\* both calls.
C11_NothingShared ==
  /\ \A c \in Calls : AloneAt(c)
  /\ Cardinality(RngUsers) <= 1

\* C11 amended: each of two concurrent calls produces what it could produce
\* alone, pool order included, and its locals are at every step what they
\* are alone; the one state both calls read and write is the generator of
\* the random module, from which a call draws len(images) - 1 values when it
\* harvested at least two images.
C11_OnlyTheGeneratorShared ==
  /\ \A c \in Calls : AloneAt(c)
  /\ \A c \in Calls : OwnDraws(c)
  /\ Len(rng) = DrawsBy(1) + DrawsBy(2)

\* C11 witness: two calls on the same template and plan have both finished,
\* call 2 drew from the generator before call 1 did, and the two pools and
\* documents differ.
C11_Witness ==
  /\ \A c \in Calls : pc[c] = "done"
  /\ template_bytes[1] = template_bytes[2]
  /\ slides_plan[1] = slides_plan[2]
  /\ Len(rng) >= 2 /\ rng[1] = 2 /\ rng[Len(rng)] = 1
  /\ template_images[1] # template_images[2]
  /\ out[1] # out[2]
====
